---- MODULE Spec2Model ----
(***************************************************************************)
(* The aEi.ai Python client (src/src/api/aei_api.py): a facade of          *)
(* module-level functions, each of which builds one HTTP request from its  *)
(* arguments and hands it to the requests transport (post/get/put/delete). *)
(*                                                                         *)
(* Python values are modelled as tagged records [type, val]: a str, None,  *)
(* a bool, a dict (its items in insertion order), a list, bytes, a         *)
(* Response, or a raised exception.  An operator that models Python code   *)
(* yields the exception value when the code raises.                        *)
(***************************************************************************)
EXTENDS Integers, Sequences, FiniteSets, TLC

VARIABLES
    AEI_AI_URL,     \* module global, aei_api.py:11
    API_VERSION,    \* module global, aei_api.py:12
    API_URL,        \* module global, aei_api.py:13
    calls,          \* number of facade operations invoked so far
    sent,           \* number of requests handed to the transport so far
    last,           \* the most recent invocation: op, args, transport outcome, requests emitted, result
    stdout,         \* lines printed so far (is_success prints)
    checks,         \* number of is_success calls so far
    pc,             \* position of the single-call harnesses ("ready"/"done") and of the driver
    input,          \* the input drawn for the single-call harnesses; the driver's installation
    main            \* main.py: its global REGISTERED, the locals of main() and the facade calls it made

vars == <<AEI_AI_URL, API_VERSION, API_URL, calls, sent, last, stdout, checks, pc, input, main>>

\* ------------------------------------------------------------------ bounds
MaxCalls == 2
MaxLen == 2
MaxParams == 2
MaxChecks == 2

\* ----------------------------------------------------------- Python values
Str(s) == [type |-> "str", val |-> s]
None == [type |-> "NoneType", val |-> "None"]
Bool(b) == [type |-> "bool", val |-> b]
PyInt(n) == [type |-> "int", val |-> n]
Dict(items) == [type |-> "dict", val |-> items]
List(xs) == [type |-> "list", val |-> xs]
Bytes(bs) == [type |-> "bytes", val |-> bs]
Exc(name) == [type |-> "exception", val |-> name]
Response(status_code, code) ==
    [type |-> "Response", val |-> [status_code |-> status_code, code |-> code]]

IsExc(v) == v.type = "exception"
IsStr(v) == v.type = "str"

\* Python's a + b on str operands: concatenation; a non-str operand raises
\* TypeError ("can only concatenate str (not ...) to str").  An operand that
\* already raised propagates, left operand first.
Add(a, b) ==
    IF IsExc(a) THEN a
    ELSE IF IsExc(b) THEN b
    ELSE IF IsStr(a) /\ IsStr(b) THEN Str(a.val \o b.val)
    ELSE Exc("TypeError")

\* Truth value of `x` in `... if x else ...`: None, "" and {} are false.
Truthy(v) ==
    CASE v.type = "NoneType" -> FALSE
      [] v.type = "bool" -> v.val
      [] OTHER -> Len(v.val) > 0

\* dict lookups on the insertion-ordered item list
HasKey(d, k) == \E i \in 1..Len(d.val) : d.val[i][1] = k
GetItem(d, k) == d.val[CHOOSE i \in 1..Len(d.val) : d.val[i][1] = k][2]
\* d[k] = v: replaces the value in place, or appends a new item
SetItem(d, k, v) ==
    IF HasKey(d, k)
    THEN Dict([i \in 1..Len(d.val) |-> IF d.val[i][1] = k THEN <<k, v>> ELSE d.val[i]])
    ELSE Dict(Append(d.val, <<k, v>>))

\* json.dumps of a dict of str keys and str/None values whose characters need
\* no escaping: {"k": "v", "k2": null}
JsonValue(v) == IF IsStr(v) THEN "\"" \o v.val \o "\"" ELSE "null"
RECURSIVE JsonItems(_)
JsonItems(items) ==
    IF Len(items) = 0 THEN ""
    ELSE "\"" \o items[1][1] \o "\": " \o JsonValue(items[1][2])
         \o (IF Len(items) = 1 THEN "" ELSE ", " \o JsonItems(Tail(items)))
json_dumps(d) == Str("{" \o JsonItems(d.val) \o "}")

\* ------------------------------------------------------------- the transport
\* requests.post/get/put/delete: one call hands one request to the transport,
\* which answers with a Response or raises a transport exception; the answer
\* `tr` is the environment's choice.  `built` are the values of the statements
\* that ran before the call, in order: if one of them raised, the function was
\* left there and the transport was never called.
NoRequest == <<>>
FirstExc(built) == built[CHOOSE i \in 1..Len(built) :
                            IsExc(built[i]) /\ \A j \in 1..(i-1) : ~IsExc(built[j])]
request(method, url, data, headers, tr, built) ==
    IF \E i \in 1..Len(built) : IsExc(built[i])
    THEN [emitted |-> NoRequest, result |-> FirstExc(built)]
    ELSE [emitted |-> <<[method |-> method, url |-> url.val,
                         headers |-> headers, data |-> data]>>,
          result |-> tr]
post(url, data, headers, tr, built) == request("POST", url, data, headers, tr, built)
get(url, headers, tr, built) == request("GET", url, None, headers, tr, built)
put(url, data, headers, tr, built) == request("PUT", url, data, headers, tr, built)
delete(url, headers, tr, built) == request("DELETE", url, None, headers, tr, built)

\* ------------------------------------------------------------------ helpers
\* Faulty variants of auth_headers: another scheme word; a header-less dict when the
\* token is missing; a header remembered from the previous call.
auth_headers_basic(access_token) ==
    LET v == Add(Str("Basic "), access_token)
    IN  IF IsExc(v) THEN v ELSE Dict(<<<<"Authorization", v>>>>)
auth_headers_optional(access_token) ==
    IF access_token.type = "NoneType" THEN Dict(<<>>)
    ELSE LET v == Add(Str("Bearer "), access_token)
         IN  IF IsExc(v) THEN v ELSE Dict(<<<<"Authorization", v>>>>)
auth_headers_cached(access_token) ==
    IF last.op # "none" /\ Len(last.emitted) > 0 /\ last.emitted[1].headers.type = "dict"
       /\ HasKey(last.emitted[1].headers, "Authorization")
    THEN Dict(<<<<"Authorization", GetItem(last.emitted[1].headers, "Authorization")>>>>)
    ELSE LET v == Add(Str("Bearer "), access_token)
         IN  IF IsExc(v) THEN v ELSE Dict(<<<<"Authorization", v>>>>)

auth_headers(access_token) ==
    LET v == Add(Str("Bearer "), access_token)
    IN  IF IsExc(v) THEN v ELSE Dict(<<<<"Authorization", v>>>>)

\* params_2_string: "" for None or an empty dict; otherwise "?" and, per item,
\* k + "=" + v + "&", with the last character cut off at the end.
RECURSIVE params_loop(_, _)
params_loop(out, items) ==
    IF Len(items) = 0 \/ IsExc(out) THEN out
    ELSE params_loop(Add(Add(Add(Add(out, Str(items[1][1])), Str("=")), items[1][2]), Str("&")),
                     Tail(items))
\* Faulty variants of params_2_string: items whose value is None are left out; the
\* trailing "&" is kept.
RECURSIVE drop_none(_)
drop_none(items) ==
    IF Len(items) = 0 THEN <<>>
    ELSE IF items[1][2].type = "NoneType" THEN drop_none(Tail(items))
    ELSE <<items[1]>> \o drop_none(Tail(items))
params_2_string_skip_none(params) ==
    IF params.type = "NoneType" \/ Len(drop_none(params.val)) = 0 THEN Str("")
    ELSE LET out == params_loop(Str("?"), drop_none(params.val))
         IN  IF IsExc(out) THEN out ELSE Str(SubSeq(out.val, 1, Len(out.val) - 1))
params_2_string_trailing(params) ==
    IF params.type = "NoneType" \/ Len(params.val) = 0 THEN Str("")
    ELSE params_loop(Str("?"), params.val)

params_2_string(params) ==
    IF params.type = "NoneType" \/ Len(params.val) = 0 THEN Str("")
    ELSE LET out == params_loop(Str("?"), params.val)
         IN  IF IsExc(out) THEN out ELSE Str(SubSeq(out.val, 1, Len(out.val) - 1))

\* print(x) writes str(x) as one line: the text of a str, "None" for None.
print_line(v) == IF IsStr(v) THEN v.val ELSE "None"

\* Faulty variant of is_success: help is printed before error.
is_success_swapped(status) ==
    IF GetItem(status, "code") # PyInt(200)
    THEN [printed |-> <<print_line(GetItem(status, "help")),
                        print_line(GetItem(status, "error"))>>,
          result |-> Bool(FALSE)]
    ELSE [printed |-> <<>>, result |-> Bool(TRUE)]

\* is_success: what it prints and what it returns.  (status is a dict holding
\* the keys code, error and help, code an int.)
is_success(status) ==
    IF GetItem(status, "code") # PyInt(200)
    THEN [printed |-> <<print_line(GetItem(status, "error")),
                        print_line(GetItem(status, "help"))>>,
          result |-> Bool(FALSE)]
    ELSE [printed |-> <<>>, result |-> Bool(TRUE)]

\* ------------------------------------------------- str.encode / b64encode
\* The printable ASCII characters: code points 32..95 and 97..125 (a TLA+
\* string cannot hold code point 96).  The module text is kept ASCII: the one
\* non-ASCII input character, U+00E9 (e acute, code point 233), is written
\* with the placeholder E_ACUTE, which the two tables leave out.
ASCII_32_95 == " !\"#$%&'()*+,-./0123456789:;<=>?@ABCDEFGHIJKLMNOPQRSTUVWXYZ[\\]^_"
ASCII_97_125 == "abcdefghijklmnopqrstuvwxyz{|}"
E_ACUTE == "~"
CharAt(s, i) == SubSeq(s, i, i)
Contains(s, c) == \E i \in 1..Len(s) : CharAt(s, i) = c
IndexOf(c, s) == CHOOSE i \in 1..Len(s) : CharAt(s, i) = c
ord(c) ==
    IF c = E_ACUTE THEN 233
    ELSE IF Contains(ASCII_32_95, c) THEN 31 + IndexOf(c, ASCII_32_95)
    ELSE 96 + IndexOf(c, ASCII_97_125)
chr(n) ==
    IF n = 233 THEN E_ACUTE
    ELSE IF n <= 95 THEN CharAt(ASCII_32_95, n - 31)
    ELSE CharAt(ASCII_97_125, n - 96)

\* s.encode("ascii"): the code points of s as bytes; UnicodeEncodeError when a
\* code point is above 127.
encode_ascii(s) ==
    IF IsExc(s) THEN s
    ELSE LET cps == [i \in 1..Len(s.val) |-> ord(CharAt(s.val, i))]
         IN  IF \E i \in 1..Len(cps) : cps[i] > 127
             THEN Exc("UnicodeEncodeError")
             ELSE Bytes(cps)

\* b.decode("ascii"): bytes back to a str
RECURSIVE decode_chars(_)
decode_chars(bs) == IF Len(bs) = 0 THEN "" ELSE chr(bs[1]) \o decode_chars(Tail(bs))
decode_ascii(b) == IF IsExc(b) THEN b ELSE Str(decode_chars(b.val))

\* base64.b64encode (RFC 4648): every 3 input bytes give 4 characters of the
\* alphabet; a last group of 1 or 2 bytes is zero-filled and padded with "=".
B64ALPHABET == "ABCDEFGHIJKLMNOPQRSTUVWXYZabcdefghijklmnopqrstuvwxyz0123456789+/"
B64Byte(i) == ord(CharAt(B64ALPHABET, i + 1))
RECURSIVE b64_groups(_)
b64_groups(bs) ==
    IF Len(bs) = 0 THEN <<>>
    ELSE IF Len(bs) = 1 THEN
        <<B64Byte(bs[1] \div 4), B64Byte((bs[1] % 4) * 16), ord("="), ord("=")>>
    ELSE IF Len(bs) = 2 THEN
        <<B64Byte(bs[1] \div 4), B64Byte((bs[1] % 4) * 16 + bs[2] \div 16),
          B64Byte((bs[2] % 16) * 4), ord("=")>>
    ELSE
        <<B64Byte(bs[1] \div 4), B64Byte((bs[1] % 4) * 16 + bs[2] \div 16),
          B64Byte((bs[2] % 16) * 4 + bs[3] \div 64), B64Byte(bs[3] % 64)>>
        \o b64_groups(SubSeq(bs, 4, Len(bs)))
b64encode(b) == IF IsExc(b) THEN b ELSE Bytes(b64_groups(b.val))

\* ------------------------------------------------------- facade operations
\* Each operator is one facade function: its statements in order, then the one
\* transport call whose answer it returns.  `tr` is the transport's answer.
register(username, email, password, agreed, tr) ==
    LET url == Add(Str(AEI_AI_URL), Str("/register"))
        headers == Dict(<<<<"username", username>>, <<"email", email>>,
                          <<"password", password>>, <<"agreed", agreed>>>>)
    IN  post(url, None, headers, tr, <<url, headers>>)

\* Faulty variant of login: the credentials are joined without the ':'.
login_no_colon(username, password, tr) ==
    LET url == Add(Str(AEI_AI_URL), Str("/oauth/token"))
        params == Dict(<<<<"grant_type", Str("client_credentials")>>>>)
        credentials == encode_ascii(Add(username, password))
        basic == Add(Str("Basic "), decode_ascii(b64encode(credentials)))
        headers == IF IsExc(basic) THEN basic
                   ELSE Dict(<<<<"Authorization", basic>>,
                               <<"Content-Type", Str("application/x-www-form-urlencoded")>>>>)
    IN  post(url, params, headers, tr, <<url, params, headers>>)

login(username, password, tr) ==
    LET url == Add(Str(AEI_AI_URL), Str("/oauth/token"))
        params == Dict(<<<<"grant_type", Str("client_credentials")>>>>)
        credentials == encode_ascii(Add(Add(username, Str(":")), password))
        basic == Add(Str("Basic "), decode_ascii(b64encode(credentials)))
        headers == IF IsExc(basic) THEN basic
                   ELSE Dict(<<<<"Authorization", basic>>,
                               <<"Content-Type", Str("application/x-www-form-urlencoded")>>>>)
    IN  post(url, params, headers, tr, <<url, params, headers>>)

\* Faulty variant of create_new_user: a non-200 HTTP status is turned into an exception.
create_new_user_raising(access_token, attributes, tr) ==
    LET url == Add(Str(API_URL), Str("/users"))
        headers == auth_headers(access_token)
        body == IF Truthy(attributes) THEN json_dumps(attributes) ELSE None
        r == post(url, body, headers, tr, <<url, headers, body>>)
    IN  IF r.result.type = "Response" /\ r.result.val.status_code # 200
        THEN [emitted |-> r.emitted, result |-> Exc("HTTPError")]
        ELSE r

create_new_user(access_token, attributes, tr) ==
    LET url == Add(Str(API_URL), Str("/users"))
        headers == auth_headers(access_token)
        body == IF Truthy(attributes) THEN json_dumps(attributes) ELSE None
    IN  post(url, body, headers, tr, <<url, headers, body>>)

\* [("user_id", user_id) for user_id in user_ids]; iterating None raises
\* TypeError.  (user_ids is a list or None in every input drawn here.)
user_id_params(user_ids) ==
    IF user_ids.type = "list"
    THEN List([i \in 1..Len(user_ids.val) |-> <<"user_id", user_ids.val[i]>>])
    ELSE Exc("TypeError")

create_new_interaction(user_ids, access_token, tr) ==
    LET url == Add(Str(API_URL), Str("/interactions"))
        headers == auth_headers(access_token)
        params == user_id_params(user_ids)
    IN  post(url, params, headers, tr, <<url, headers, params>>)

get_interaction(interaction_id, access_token, tr) ==
    LET url == Add(Add(Str(API_URL), Str("/interactions/")), interaction_id)
        headers == auth_headers(access_token)
    IN  get(url, headers, tr, <<url, headers>>)

get_interaction_list(access_token, tr) ==
    LET url == Add(Str(API_URL), Str("/interactions"))
        headers == auth_headers(access_token)
    IN  get(url, headers, tr, <<url, headers>>)

add_users_to_interaction(interaction_id, user_ids, access_token, tr) ==
    LET url == Add(Add(Add(Str(API_URL), Str("/interactions/")), interaction_id), Str("/users"))
        headers == auth_headers(access_token)
        params == user_id_params(user_ids)
    IN  put(url, params, headers, tr, <<url, headers, params>>)

new_text_input(user_id, interaction_id, text, access_token, tr) ==
    LET url0 == Add(Str(API_URL), Str("/inputs/text"))
        headers == auth_headers(access_token)
        url == Add(url0, params_2_string(Dict(<<<<"user_id", user_id>>,
                                               <<"interaction_id", interaction_id>>>>)))
    IN  post(url, text, headers, tr, <<url0, headers, url>>)

new_interaction_list_input(json_string, access_token, tr) ==
    LET url == Add(Str(API_URL), Str("/inputs/interaction-list"))
        headers == auth_headers(access_token)
    IN  post(url, json_string, headers, tr, <<url, headers>>)

\* Faulty variant of get_user: the request is sent again when the transport fails.
get_user_retry(user_id, access_token, tr) ==
    LET url == Add(Add(Str(API_URL), Str("/users/")), user_id)
        headers == auth_headers(access_token)
        r == get(url, headers, tr, <<url, headers>>)
    IN  IF r.result \in {Exc("ConnectionError")}
        THEN [emitted |-> r.emitted \o r.emitted, result |-> r.result]
        ELSE r

get_user(user_id, access_token, tr) ==
    LET url == Add(Add(Str(API_URL), Str("/users/")), user_id)
        headers == auth_headers(access_token)
    IN  get(url, headers, tr, <<url, headers>>)

get_user_emotion(user_id, access_token, tr) ==
    LET url == Add(Add(Add(Str(API_URL), Str("/users/")), user_id), Str("/emotion"))
        headers == auth_headers(access_token)
    IN  get(url, headers, tr, <<url, headers>>)

get_user_mood(user_id, access_token, tr) ==
    LET url == Add(Add(Add(Str(API_URL), Str("/users/")), user_id), Str("/mood"))
        headers == auth_headers(access_token)
    IN  get(url, headers, tr, <<url, headers>>)

get_user_personality(user_id, access_token, tr) ==
    LET url == Add(Add(Add(Str(API_URL), Str("/users/")), user_id), Str("/personality"))
        headers == auth_headers(access_token)
    IN  get(url, headers, tr, <<url, headers>>)

get_user_satisfaction(user_id, access_token, tr) ==
    LET url == Add(Add(Add(Str(API_URL), Str("/users/")), user_id), Str("/satisfaction"))
        headers == auth_headers(access_token)
    IN  get(url, headers, tr, <<url, headers>>)

get_user_social_perception(user_id, access_token, tr) ==
    LET url == Add(Add(Add(Str(API_URL), Str("/users/")), user_id), Str("/social-perception"))
        headers == auth_headers(access_token)
    IN  get(url, headers, tr, <<url, headers>>)

get_user_list(access_token, tr) ==
    LET url == Add(Str(API_URL), Str("/users/"))
        headers == auth_headers(access_token)
    IN  get(url, headers, tr, <<url, headers>>)

get_used_free_queries(access_token, tr) ==
    LET url == Add(Str(API_URL), Str("/metrics/queries/used"))
        headers == auth_headers(access_token)
    IN  get(url, headers, tr, <<url, headers>>)

get_used_paid_queries(access_token, tr) ==
    LET url == Add(Str(API_URL), Str("/metrics/queries"))
        headers == auth_headers(access_token)
    IN  get(url, headers, tr, <<url, headers>>)

get_payment_sources(access_token, tr) ==
    LET url == Add(Str(API_URL), Str("/sources"))
        headers == auth_headers(access_token)
    IN  get(url, headers, tr, <<url, headers>>)

get_payment_source(source_id, access_token, tr) ==
    LET url == Add(Add(Str(API_URL), Str("/sources/")), source_id)
        headers == auth_headers(access_token)
    IN  get(url, headers, tr, <<url, headers>>)

add_payment_source(source_id, access_token, tr) ==
    LET url == Add(Add(Str(API_URL), Str("/sources/")), source_id)
        headers == auth_headers(access_token)
    IN  post(url, None, headers, tr, <<url, headers>>)

get_subscription(access_token, tr) ==
    LET url == Add(Str(API_URL), Str("/subscriptions"))
        headers == auth_headers(access_token)
    IN  get(url, headers, tr, <<url, headers>>)

update_subscription(subscription_type, access_token, tr) ==
    LET url == Add(Str(API_URL), Str("/subscriptions"))
        headers == auth_headers(access_token)
        params == Dict(<<<<"subscription_type", subscription_type>>>>)
    IN  put(url, params, headers, tr, <<url, headers, params>>)

delete_source(source_id, access_token, tr) ==
    LET url == Add(Add(Str(API_URL), Str("/sources/")), source_id)
        headers == auth_headers(access_token)
    IN  delete(url, headers, tr, <<url, headers>>)

update_source(source_id, update_params, access_token, tr) ==
    LET url == Add(Add(Str(API_URL), Str("/sources/")), source_id)
        headers == auth_headers(access_token)
        body == IF Truthy(update_params) THEN json_dumps(update_params) ELSE None
    IN  put(url, body, headers, tr, <<url, headers, body>>)

change_password(password, access_token, tr) ==
    LET url == Add(Str(API_URL), Str("/clients/password"))
        headers0 == auth_headers(access_token)
        headers == IF IsExc(headers0) THEN headers0
                   ELSE SetItem(headers0, "password", password)
    IN  put(url, None, headers, tr, <<url, headers>>)

\* Faulty variant of reset_password: the path is put under the versioned prefix.
reset_password_versioned(email, tr) ==
    LET url == Add(Str(API_URL), Str("/reset-password"))
        params == Dict(<<<<"email", email>>>>)
    IN  post(url, params, None, tr, <<url, params>>)

\* post(url=url, data=params): no headers argument is passed
reset_password(email, tr) ==
    LET url == Add(Str(AEI_AI_URL), Str("/reset-password"))
        params == Dict(<<<<"email", email>>>>)
    IN  post(url, params, None, tr, <<url, params>>)

update_password(username, password_reset_token, new_password, tr) ==
    LET url == Add(Str(AEI_AI_URL), Str("/update-password"))
        headers == Dict(<<<<"username", username>>, <<"token", password_reset_token>>,
                          <<"password", new_password>>>>)
    IN  put(url, None, headers, tr, <<url, headers>>)

\* ------------------------------------------------------------------ inputs
\* What a caller may pass: strings as the signatures ask for, and None, which
\* Python accepts for any parameter (drawn for the parameters the functions
\* compute with, and for one that is only passed on).
Tokens == {Str("T"), Str(""), None}
UserIds == {Str("u1"), None}
InteractionIds == {Str("i2"), None}
SourceIds == {Str("s1"), None}
InputTexts == {Str("I am happy")}
JsonStrings == {Str("[]")}
SubscriptionTypes == {Str("basic"), None}
Attributes == {None, Dict(<<>>), Dict(<<<<"name", Str("bob")>>>>)}
UserIdLists == {None, List(<<>>), List(<<Str("u1"), Str("u2")>>)}
Usernames == {Str("alice"), Str("jos" \o E_ACUTE), None}
Passwords == {Str("s3cret"), None}
Emails == {Str("a@b.c")}
ResetTokens == {Str("r1")}
Agreed == {Bool(TRUE), Bool(FALSE)}

\* What the transport may answer: an HTTP response (its HTTP status code and the
\* code of the Status object in its body), or a transport exception.
Responses == {Response(200, 200), Response(200, 404), Response(500, 500)}
TransportErrors == {Exc("ConnectionError")}
Transport == Responses \cup TransportErrors

\* ------------------------------------------------------------------ actions
\* main.py is not running: the facade is exercised directly
NotRun == [pc |-> "not run"]
NoCall == [op |-> "none", args |-> <<>>, tr |-> None, emitted |-> NoRequest, result |-> None]

\* One invocation of function `op` with `args`; `out` is what the function
\* did: the requests it handed to the transport and what it returned or raised.
Record(op, args, tr, out) ==
    /\ calls' = calls + 1
    /\ LET o == out
       IN  /\ sent' = sent + Len(o.emitted)
           /\ last' = [op |-> op, args |-> args, tr |-> tr,
                       emitted |-> o.emitted, result |-> o.result]
    /\ UNCHANGED <<AEI_AI_URL, API_VERSION, API_URL, stdout, checks, main>>

Invoke(op, args, tr, out) ==
    /\ calls < MaxCalls
    /\ Record(op, args, tr, out)
    /\ UNCHANGED <<pc, input>>

Call_register ==
    \E username \in Usernames, email \in Emails, password \in Passwords, agreed \in Agreed, tr \in Transport :
        Invoke("register", [username |-> username, email |-> email, password |-> password, agreed |-> agreed], tr,
               register(username, email, password, agreed, tr))

Call_login ==
    \E username \in Usernames, password \in Passwords, tr \in Transport :
        Invoke("login", [username |-> username, password |-> password], tr,
               login(username, password, tr))

Call_create_new_user ==
    \E access_token \in Tokens, attributes \in Attributes, tr \in Transport :
        Invoke("create_new_user", [access_token |-> access_token, attributes |-> attributes], tr,
               create_new_user(access_token, attributes, tr))

Call_create_new_interaction ==
    \E user_ids \in UserIdLists, access_token \in Tokens, tr \in Transport :
        Invoke("create_new_interaction", [user_ids |-> user_ids, access_token |-> access_token], tr,
               create_new_interaction(user_ids, access_token, tr))

Call_get_interaction ==
    \E interaction_id \in InteractionIds, access_token \in Tokens, tr \in Transport :
        Invoke("get_interaction", [interaction_id |-> interaction_id, access_token |-> access_token], tr,
               get_interaction(interaction_id, access_token, tr))

Call_get_interaction_list ==
    \E access_token \in Tokens, tr \in Transport :
        Invoke("get_interaction_list", [access_token |-> access_token], tr,
               get_interaction_list(access_token, tr))

Call_add_users_to_interaction ==
    \E interaction_id \in InteractionIds, user_ids \in UserIdLists, access_token \in Tokens, tr \in Transport :
        Invoke("add_users_to_interaction", [interaction_id |-> interaction_id, user_ids |-> user_ids, access_token |-> access_token], tr,
               add_users_to_interaction(interaction_id, user_ids, access_token, tr))

Call_new_text_input ==
    \E user_id \in UserIds, interaction_id \in InteractionIds, text \in InputTexts, access_token \in Tokens, tr \in Transport :
        Invoke("new_text_input", [user_id |-> user_id, interaction_id |-> interaction_id, text |-> text, access_token |-> access_token], tr,
               new_text_input(user_id, interaction_id, text, access_token, tr))

Call_new_interaction_list_input ==
    \E json_string \in JsonStrings, access_token \in Tokens, tr \in Transport :
        Invoke("new_interaction_list_input", [json_string |-> json_string, access_token |-> access_token], tr,
               new_interaction_list_input(json_string, access_token, tr))

Call_get_user ==
    \E user_id \in UserIds, access_token \in Tokens, tr \in Transport :
        Invoke("get_user", [user_id |-> user_id, access_token |-> access_token], tr,
               get_user(user_id, access_token, tr))

Call_get_user_emotion ==
    \E user_id \in UserIds, access_token \in Tokens, tr \in Transport :
        Invoke("get_user_emotion", [user_id |-> user_id, access_token |-> access_token], tr,
               get_user_emotion(user_id, access_token, tr))

Call_get_user_mood ==
    \E user_id \in UserIds, access_token \in Tokens, tr \in Transport :
        Invoke("get_user_mood", [user_id |-> user_id, access_token |-> access_token], tr,
               get_user_mood(user_id, access_token, tr))

Call_get_user_personality ==
    \E user_id \in UserIds, access_token \in Tokens, tr \in Transport :
        Invoke("get_user_personality", [user_id |-> user_id, access_token |-> access_token], tr,
               get_user_personality(user_id, access_token, tr))

Call_get_user_satisfaction ==
    \E user_id \in UserIds, access_token \in Tokens, tr \in Transport :
        Invoke("get_user_satisfaction", [user_id |-> user_id, access_token |-> access_token], tr,
               get_user_satisfaction(user_id, access_token, tr))

Call_get_user_social_perception ==
    \E user_id \in UserIds, access_token \in Tokens, tr \in Transport :
        Invoke("get_user_social_perception", [user_id |-> user_id, access_token |-> access_token], tr,
               get_user_social_perception(user_id, access_token, tr))

Call_get_user_list ==
    \E access_token \in Tokens, tr \in Transport :
        Invoke("get_user_list", [access_token |-> access_token], tr,
               get_user_list(access_token, tr))

Call_get_used_free_queries ==
    \E access_token \in Tokens, tr \in Transport :
        Invoke("get_used_free_queries", [access_token |-> access_token], tr,
               get_used_free_queries(access_token, tr))

Call_get_used_paid_queries ==
    \E access_token \in Tokens, tr \in Transport :
        Invoke("get_used_paid_queries", [access_token |-> access_token], tr,
               get_used_paid_queries(access_token, tr))

Call_get_payment_sources ==
    \E access_token \in Tokens, tr \in Transport :
        Invoke("get_payment_sources", [access_token |-> access_token], tr,
               get_payment_sources(access_token, tr))

Call_get_payment_source ==
    \E source_id \in SourceIds, access_token \in Tokens, tr \in Transport :
        Invoke("get_payment_source", [source_id |-> source_id, access_token |-> access_token], tr,
               get_payment_source(source_id, access_token, tr))

Call_add_payment_source ==
    \E source_id \in SourceIds, access_token \in Tokens, tr \in Transport :
        Invoke("add_payment_source", [source_id |-> source_id, access_token |-> access_token], tr,
               add_payment_source(source_id, access_token, tr))

Call_get_subscription ==
    \E access_token \in Tokens, tr \in Transport :
        Invoke("get_subscription", [access_token |-> access_token], tr,
               get_subscription(access_token, tr))

Call_update_subscription ==
    \E subscription_type \in SubscriptionTypes, access_token \in Tokens, tr \in Transport :
        Invoke("update_subscription", [subscription_type |-> subscription_type, access_token |-> access_token], tr,
               update_subscription(subscription_type, access_token, tr))

Call_delete_source ==
    \E source_id \in SourceIds, access_token \in Tokens, tr \in Transport :
        Invoke("delete_source", [source_id |-> source_id, access_token |-> access_token], tr,
               delete_source(source_id, access_token, tr))

Call_update_source ==
    \E source_id \in SourceIds, update_params \in Attributes, access_token \in Tokens, tr \in Transport :
        Invoke("update_source", [source_id |-> source_id, update_params |-> update_params, access_token |-> access_token], tr,
               update_source(source_id, update_params, access_token, tr))

Call_change_password ==
    \E password \in Passwords, access_token \in Tokens, tr \in Transport :
        Invoke("change_password", [password |-> password, access_token |-> access_token], tr,
               change_password(password, access_token, tr))

Call_reset_password ==
    \E email \in Emails, tr \in Transport :
        Invoke("reset_password", [email |-> email], tr,
               reset_password(email, tr))

Call_update_password ==
    \E username \in Usernames, password_reset_token \in ResetTokens, new_password \in Passwords, tr \in Transport :
        Invoke("update_password", [username |-> username, password_reset_token |-> password_reset_token, new_password |-> new_password], tr,
               update_password(username, password_reset_token, new_password, tr))

Init ==
    /\ AEI_AI_URL = "https://aei.ai"
    /\ API_VERSION = "v1"
    /\ API_URL = AEI_AI_URL \o "/api/" \o API_VERSION
    /\ calls = 0
    /\ sent = 0
    /\ last = NoCall
    /\ stdout = <<>>
    /\ checks = 0
    /\ pc = "idle"
    /\ input = None
    /\ main = NotRun

Next ==
    \/ Call_register
    \/ Call_login
    \/ Call_create_new_user
    \/ Call_create_new_interaction
    \/ Call_get_interaction
    \/ Call_get_interaction_list
    \/ Call_add_users_to_interaction
    \/ Call_new_text_input
    \/ Call_new_interaction_list_input
    \/ Call_get_user
    \/ Call_get_user_emotion
    \/ Call_get_user_mood
    \/ Call_get_user_personality
    \/ Call_get_user_satisfaction
    \/ Call_get_user_social_perception
    \/ Call_get_user_list
    \/ Call_get_used_free_queries
    \/ Call_get_used_paid_queries
    \/ Call_get_payment_sources
    \/ Call_get_payment_source
    \/ Call_add_payment_source
    \/ Call_get_subscription
    \/ Call_update_subscription
    \/ Call_delete_source
    \/ Call_update_source
    \/ Call_change_password
    \/ Call_reset_password
    \/ Call_update_password

Spec == Init /\ [][Next]_vars

\* ------------------------------------------------ login on drawn credentials
\* One login call on a username and a password drawn from every text of up to
\* MaxLen characters over a letter, the ':' and a non-ASCII character, and on
\* the pair alice / s3cret.
LoginAlphabet == {"a", ":", E_ACUTE}
RECURSIVE TextsUpTo(_)
TextsUpTo(n) ==
    IF n = 0 THEN {""}
    ELSE LET shorter == TextsUpTo(n - 1)
         IN  shorter \cup {t \o c : t \in shorter, c \in LoginAlphabet}
LoginInputs ==
    {<<Str(u), Str(p)>> : u \in TextsUpTo(MaxLen), p \in TextsUpTo(MaxLen)}
        \cup {<<Str("alice"), Str("s3cret")>>}

InitLogin ==
    /\ AEI_AI_URL = "https://aei.ai"
    /\ API_VERSION = "v1"
    /\ API_URL = AEI_AI_URL \o "/api/" \o API_VERSION
    /\ calls = 0
    /\ sent = 0
    /\ last = NoCall
    /\ stdout = <<>>
    /\ checks = 0
    /\ pc = "ready"
    /\ input \in LoginInputs
    /\ main = NotRun

LoginOnce ==
    /\ pc = "ready"
    /\ pc' = "done"
    /\ \E tr \in Transport :
           Record("login", [username |-> input[1], password |-> input[2]], tr,
                  login(input[1], input[2], tr))
    /\ UNCHANGED input

SpecLogin == InitLogin /\ [][LoginOnce]_vars

\* ------------------------------------------ params_2_string on drawn dicts
\* One params_2_string call on None and on every dict of up to MaxParams items
\* with distinct keys.
ParamKeys == {"user_id", "interaction_id", "k"}
ParamValues == {"u1", "i2", "a b&c=d", ""}
ParamItems == {<<k, Str(v)>> : k \in ParamKeys, v \in ParamValues}
ParamDicts ==
    {None} \cup
    {Dict(items) : items \in
        {q \in UNION {[1..m -> ParamItems] : m \in 0..MaxParams} :
            \A i, j \in 1..Len(q) : i # j => q[i][1] # q[j][1]}}

InitParams ==
    /\ AEI_AI_URL = "https://aei.ai"
    /\ API_VERSION = "v1"
    /\ API_URL = AEI_AI_URL \o "/api/" \o API_VERSION
    /\ calls = 0
    /\ sent = 0
    /\ last = NoCall
    /\ stdout = <<>>
    /\ checks = 0
    /\ pc = "ready"
    /\ input \in ParamDicts
    /\ main = NotRun

ParamsOnce ==
    /\ pc = "ready"
    /\ pc' = "done"
    /\ Record("params_2_string", [params |-> input], None,
              [emitted |-> NoRequest, result |-> params_2_string(input)])
    /\ UNCHANGED input

SpecParams == InitParams /\ [][ParamsOnce]_vars

\* -------------------------------------------------- is_success on statuses
\* Up to MaxChecks is_success calls, each on a status the service may send.
StatusCodes == {200, 201, 404, 500}
StatusTexts == {Str("not found"), Str("check id"), None}
Statuses ==
    {Dict(<<<<"code", PyInt(c)>>, <<"error", e>>, <<"help", h>>>>) :
        c \in StatusCodes, e \in StatusTexts, h \in StatusTexts}

Call_is_success ==
    /\ checks < MaxChecks
    /\ \E status \in Statuses :
           LET o == is_success(status)
           IN  /\ checks' = checks + 1
               /\ stdout' = stdout \o o.printed
               /\ last' = [op |-> "is_success", args |-> [status |-> status], tr |-> None,
                           emitted |-> NoRequest, result |-> o.result]
    /\ UNCHANGED <<AEI_AI_URL, API_VERSION, API_URL, calls, sent, pc, input, main>>

SpecStatus == Init /\ [][Call_is_success]_vars

\* ------------------------------------------- the facade's operations
Unauthenticated == {"register", "login", "reset_password", "update_password"}
Authenticated ==
    {"create_new_user", "create_new_interaction", "get_interaction",
     "get_interaction_list", "add_users_to_interaction", "new_text_input",
     "new_interaction_list_input", "get_user", "get_user_emotion", "get_user_mood",
     "get_user_personality", "get_user_satisfaction", "get_user_social_perception",
     "get_user_list", "get_used_free_queries", "get_used_paid_queries",
     "get_payment_sources", "get_payment_source", "add_payment_source",
     "get_subscription", "update_subscription", "delete_source", "update_source",
     "change_password"}

\* ------------------------------------------------ the demonstration driver
\* src/src/main.py: module level (lines 1-11, 73-74) and main() (lines 14-70).
USERNAME == "<YOUR USERNAME>"
EMAIL == "<YOUR ACCOUNT EMAIL>"
PASSWORD == "<YOU PASSWORD>"

\* The names `from api.aei_api import *` would bind: the facade's functions.
FacadeNames ==
    Unauthenticated \cup Authenticated \cup {"auth_headers", "params_2_string", "is_success"}

\* main.py line 2 names the module api.aei_ai; the repository's module is
\* api/aei_api.py.  Whether the interpreter finds a module api.aei_ai is the
\* installation's: with the repository's tree alone it does not, and an
\* installation that makes aei_api.py importable under that name does.
Installations ==
    {[modules |-> {"api.aei_api"}], [modules |-> {"api.aei_api", "api.aei_ai"}]}

\* A Response whose body the service chose: a JSON object, or not JSON.
JsonResponse(status_code, body) ==
    [type |-> "Response", val |-> [status_code |-> status_code, body |-> body]]
NotJson == Str("<html>")
\* response.json(): requests raises JSONDecodeError on a body that is not JSON
json(response) ==
    IF IsExc(response) THEN response
    ELSE IF response.val.body.type = "dict" THEN response.val.body
    ELSE Exc("JSONDecodeError")
\* v[k] on a dict: KeyError when the key is absent
Subscript(v, k) ==
    IF IsExc(v) THEN v
    ELSE IF v.type # "dict" THEN Exc("TypeError")
    ELSE IF HasKey(v, k) THEN GetItem(v, k)
    ELSE Exc("KeyError")

\* What the service may answer to the driver's requests.
StatusOk == Dict(<<<<"code", PyInt(200)>>, <<"error", None>>, <<"help", None>>>>)
StatusNotFound ==
    Dict(<<<<"code", PyInt(404)>>, <<"error", Str("not found")>>, <<"help", Str("check id")>>>>)
IssuedTokens == {Str("T"), Str("T2")}
IssuedUserIds == {Str("u1"), Str("u2")}
IssuedInteractionIds == {Str("i1"), Str("i2")}
\* a score as the service sends it, in hundredths
PyFloat(hundredths) == [type |-> "float", val |-> hundredths]
Pad(p, a, d) ==
    Dict(<<<<"pleasure", PyFloat(p)>>, <<"arousal", PyFloat(a)>>, <<"dominance", PyFloat(d)>>>>)
UserModel(id, pad) ==
    Dict(<<<<"userId", id>>,
           <<"affect", Dict(<<<<"emotion", Dict(<<<<"pad", pad>>>>)>>>>)>>>>)
ServiceBodies(op) ==
    CASE op = "login" -> {Dict(<<<<"access_token", t>>>>) : t \in IssuedTokens}
      [] op = "create_new_user" ->
            {Dict(<<<<"status", StatusOk>>, <<"user", Dict(<<<<"userId", u>>>>)>>>>) :
                u \in IssuedUserIds}
      [] op = "create_new_interaction" ->
            {Dict(<<<<"status", StatusOk>>,
                    <<"interaction", Dict(<<<<"interactionId", i>>>>)>>>>) :
                i \in IssuedInteractionIds}
      [] op = "get_user_list" ->
            {Dict(<<<<"status", StatusOk>>,
                    <<"users", List(<<UserModel(Str("u1"), Pad(50, 25, -5))>>)>>>>)}
      [] op = "get_used_free_queries" ->
            {Dict(<<<<"status", StatusOk>>, <<"queries", PyInt(3)>>>>)}
      [] OTHER -> {Dict(<<<<"status", StatusOk>>>>)}
ServiceReplies(op) ==
    {JsonResponse(200, b) : b \in ServiceBodies(op)}
        \cup {JsonResponse(404, Dict(<<<<"status", StatusNotFound>>>>)),
              JsonResponse(502, NotJson)}
        \cup TransportErrors

\* "%1.2f" % score
fmt_2f(x) ==
    LET a == IF x.val < 0 THEN 0 - x.val ELSE x.val
    IN  (IF x.val < 0 THEN "-" ELSE "") \o ToString(a \div 100) \o "."
            \o ToString((a % 100) \div 10) \o ToString(a % 10)
\* str(v) as the f-strings and %s print it
str(v) ==
    CASE v.type = "str" -> v.val
      [] v.type = "int" -> ToString(v.val)
      [] OTHER -> "None"

\* main.py before main() runs: REGISTERED as configured at line 11
MainFrame(registered) ==
    [pc |-> "import", REGISTERED |-> registered, namespace |-> {},
     user1_id |-> None, user2_id |-> None, interaction_id |-> None,
     access_token |-> None, trace |-> <<>>, raised |-> None]

\* The outcome of one statement of main(): where control goes, the frame,
\* the facade calls made, the lines printed, the is_success calls made.
Outcome(to, f, made, printed, checked) ==
    [pc |-> to, frame |-> [f EXCEPT !.pc = to, !.trace = f.trace \o made],
     made |-> made, printed |-> printed, checked |-> checked]
\* an exception nothing catches ends the program
Raise(f, exc, made, printed, checked) ==
    Outcome("raised", [f EXCEPT !.raised = exc], made, printed, checked)

\* name(...) in main(): the name is looked up first (NameError when nothing
\* binds it), then the bound function runs
Calling(f, name, out) ==
    IF name \in f.namespace THEN out
    ELSE [emitted |-> NoRequest, result |-> Exc("NameError")]
Made(f, name, args, tr, out) ==
    IF name \in f.namespace
    THEN <<[op |-> name, args |-> args, tr |-> tr,
            emitted |-> out.emitted, result |-> out.result]>>
    ELSE <<>>
\* send_text and send_image: main() calls them; aei_api.py defines neither
NoSuchFunction == [emitted |-> NoRequest, result |-> Exc("NameError")]

\* if not is_success(status=response.json()["status"]): sys.exit(1)
CheckStatus(f, response, made, to) ==
    LET status == Subscript(json(response), "status")
    IN  IF IsExc(status) THEN Raise(f, status, made, <<>>, 0)
        ELSE LET ok == is_success(status)
             IN  IF Truthy(ok.result) THEN Outcome(to, f, made, ok.printed, 1)
                 ELSE Outcome("exited", f, made, ok.printed, 1)

\* lines 25-28
stmt_register(f, tr) ==
    IF f.REGISTERED THEN Outcome("login", f, <<>>, <<>>, 0)
    ELSE LET args == [username |-> Str(USERNAME), email |-> Str(EMAIL),
                      password |-> Str(PASSWORD), agreed |-> Bool(TRUE)]
             out == Calling(f, "register",
                            register(args.username, args.email, args.password, args.agreed, tr))
         IN  CheckStatus(f, out.result, Made(f, "register", args, tr, out), "login")

\* lines 31-33
stmt_login(f, tr) ==
    LET args == [username |-> Str(USERNAME), password |-> Str(PASSWORD)]
        out == Calling(f, "login", login(args.username, args.password, tr))
        made == Made(f, "login", args, tr, out)
        access_token == Subscript(json(out.result), "access_token")
    IN  IF IsExc(access_token) THEN Raise(f, access_token, made, <<>>, 0)
        ELSE Outcome("user1", [f EXCEPT !.access_token = access_token], made,
                     <<"Access token: " \o str(access_token)>>, 0)

\* create_new_user(access_token=access_token).json()["user"]["userId"]
new_user(f, tr) ==
    LET args == [access_token |-> f.access_token, attributes |-> None]
        out == Calling(f, "create_new_user",
                       create_new_user(args.access_token, args.attributes, tr))
    IN  [made |-> Made(f, "create_new_user", args, tr, out),
         id |-> Subscript(Subscript(json(out.result), "user"), "userId")]

\* lines 36-38
stmt_user1(f, tr) ==
    IF f.user1_id = None
    THEN LET new == new_user(f, tr)
         IN  IF IsExc(new.id) THEN Raise(f, new.id, new.made, <<>>, 0)
             ELSE Outcome("user2", [f EXCEPT !.user1_id = new.id], new.made,
                          <<"User1 ID: " \o str(new.id)>>, 0)
    ELSE Outcome("user2", f, <<>>, <<"User1 ID: " \o str(f.user1_id)>>, 0)

\* lines 40-42
stmt_user2(f, tr) ==
    IF f.user2_id = None
    THEN LET new == new_user(f, tr)
         IN  IF IsExc(new.id) THEN Raise(f, new.id, new.made, <<>>, 0)
             ELSE Outcome("interaction", [f EXCEPT !.user2_id = new.id], new.made,
                          <<"User2 ID: " \o str(new.id)>>, 0)
    ELSE Outcome("interaction", f, <<>>, <<"User2 ID: " \o str(f.user2_id)>>, 0)

\* lines 45-47
stmt_interaction(f, tr) ==
    IF f.interaction_id = None
    THEN LET args == [user_ids |-> List(<<f.user1_id, f.user2_id>>),
                      access_token |-> f.access_token]
             out == Calling(f, "create_new_interaction",
                            create_new_interaction(args.user_ids, args.access_token, tr))
             made == Made(f, "create_new_interaction", args, tr, out)
             id == Subscript(Subscript(json(out.result), "interaction"), "interactionId")
         IN  IF IsExc(id) THEN Raise(f, id, made, <<>>, 0)
             ELSE Outcome("send_text", [f EXCEPT !.interaction_id = id], made,
                          <<"Interaction ID: " \o str(id)>>, 0)
    ELSE Outcome("send_text", f, <<>>, <<"Interaction ID: " \o str(f.interaction_id)>>, 0)

\* lines 50-53
stmt_send_text(f, tr) ==
    LET args == [user_id |-> f.user1_id, interaction_id |-> f.interaction_id,
                 text |-> Str("I am happy"), access_token |-> f.access_token]
        out == Calling(f, "send_text", NoSuchFunction)
    IN  CheckStatus(f, out.result, Made(f, "send_text", args, tr, out), "send_image")

\* lines 56-59
stmt_send_image(f, tr) ==
    LET args == [user_id |-> f.user1_id, interaction_id |-> f.interaction_id,
                 image |-> Str("https://aei.ai/img/faces.jpg"),
                 access_token |-> f.access_token]
        out == Calling(f, "send_image", NoSuchFunction)
    IN  CheckStatus(f, out.result, Made(f, "send_image", args, tr, out), "user_list")

\* lines 65-66, one user of the loop
pad_line(user) ==
    LET pad == Subscript(Subscript(Subscript(user, "affect"), "emotion"), "pad")
        id == Subscript(user, "userId")
        p == Subscript(pad, "pleasure")
        a == Subscript(pad, "arousal")
        d == Subscript(pad, "dominance")
    IN  IF IsExc(pad) THEN pad
        ELSE IF IsExc(id) THEN id
        ELSE IF IsExc(p) THEN p
        ELSE IF IsExc(a) THEN a
        ELSE IF IsExc(d) THEN d
        ELSE Str("User[" \o str(id) \o "] Emotion PAD: (" \o fmt_2f(p) \o ", "
                     \o fmt_2f(a) \o ", " \o fmt_2f(d) \o ")")
\* lines 64-66: the lines printed until a user raises, and that exception
RECURSIVE pad_lines(_)
pad_lines(users) ==
    IF Len(users) = 0 THEN [printed |-> <<>>, raised |-> None]
    ELSE LET line == pad_line(users[1])
         IN  IF IsExc(line) THEN [printed |-> <<>>, raised |-> line]
             ELSE LET rest == pad_lines(Tail(users))
                  IN  [printed |-> <<line.val>> \o rest.printed, raised |-> rest.raised]

\* lines 62-66
stmt_user_list(f, tr) ==
    LET args == [access_token |-> f.access_token]
        out == Calling(f, "get_user_list", get_user_list(args.access_token, tr))
        made == Made(f, "get_user_list", args, tr, out)
        users == Subscript(json(out.result), "users")
    IN  IF IsExc(users) THEN Raise(f, users, made, <<>>, 0)
        ELSE LET loop == pad_lines(users.val)
             IN  IF IsExc(loop.raised) THEN Raise(f, loop.raised, made, loop.printed, 0)
                 ELSE Outcome("free_queries", f, made, loop.printed, 0)

\* lines 69-70
stmt_free_queries(f, tr) ==
    LET args == [access_token |-> f.access_token]
        out == Calling(f, "get_used_free_queries",
                       get_used_free_queries(args.access_token, tr))
        made == Made(f, "get_used_free_queries", args, tr, out)
        queries == Subscript(json(out.result), "queries")
    IN  IF IsExc(queries) THEN Raise(f, queries, made, <<>>, 0)
        ELSE Outcome("returned", f, made, <<"Free queries: " \o str(queries)>>, 0)

\* The statements of main() in program order, and the function each one calls.
MainStatements ==
    <<"register", "login", "user1", "user2", "interaction",
      "send_text", "send_image", "user_list", "free_queries">>
MainRunning == {MainStatements[i] : i \in 1..Len(MainStatements)}
MainStopped == {"returned", "exited", "raised"}
Callee(at) ==
    CASE at = "register" -> "register"
      [] at = "login" -> "login"
      [] at \in {"user1", "user2"} -> "create_new_user"
      [] at = "interaction" -> "create_new_interaction"
      [] at = "send_text" -> "send_text"
      [] at = "send_image" -> "send_image"
      [] at = "user_list" -> "get_user_list"
      [] at = "free_queries" -> "get_used_free_queries"
Exec(at, f, tr) ==
    CASE at = "register" -> stmt_register(f, tr)
      [] at = "login" -> stmt_login(f, tr)
      [] at = "user1" -> stmt_user1(f, tr)
      [] at = "user2" -> stmt_user2(f, tr)
      [] at = "interaction" -> stmt_interaction(f, tr)
      [] at = "send_text" -> stmt_send_text(f, tr)
      [] at = "send_image" -> stmt_send_image(f, tr)
      [] at = "user_list" -> stmt_user_list(f, tr)
      [] at = "free_queries" -> stmt_free_queries(f, tr)

\* Lines 1-11 and 73-74: the import binds the facade's names and main() is
\* entered, or the import raises ModuleNotFoundError and nothing else runs.
Main_import ==
    /\ pc = "import"
    /\ IF "api.aei_ai" \in input.modules
       THEN /\ pc' = "register"
            /\ main' = [main EXCEPT !.pc = "register", !.namespace = FacadeNames]
       ELSE /\ pc' = "raised"
            /\ main' = [main EXCEPT !.pc = "raised", !.raised = Exc("ModuleNotFoundError")]
    /\ UNCHANGED <<AEI_AI_URL, API_VERSION, API_URL, calls, sent, last, stdout, checks, input>>

\* One statement of main(), with the answer the service gives if it is asked.
Main_step ==
    /\ pc \in MainRunning
    /\ \E tr \in ServiceReplies(Callee(pc)) :
           LET o == Exec(pc, main, tr)
           IN  /\ pc' = o.pc
               /\ main' = o.frame
               /\ calls' = calls + Len(o.made)
               /\ sent' = sent + (IF Len(o.made) = 0 THEN 0 ELSE Len(o.made[1].emitted))
               /\ last' = IF Len(o.made) = 0 THEN last ELSE o.made[1]
               /\ stdout' = stdout \o o.printed
               /\ checks' = checks + o.checked
    /\ UNCHANGED <<AEI_AI_URL, API_VERSION, API_URL, input>>

InitMain ==
    /\ AEI_AI_URL = "https://aei.ai"
    /\ API_VERSION = "v1"
    /\ API_URL = AEI_AI_URL \o "/api/" \o API_VERSION
    /\ calls = 0
    /\ sent = 0
    /\ last = NoCall
    /\ stdout = <<>>
    /\ checks = 0
    /\ pc = "import"
    /\ input \in Installations
    /\ \E registered \in BOOLEAN : main = MainFrame(registered)

NextMain == Main_import \/ Main_step

SpecMain == InitMain /\ [][NextMain]_vars

\* =================================================================== claims
StartsWith(s, prefix) == Len(s) >= Len(prefix) /\ SubSeq(s, 1, Len(prefix)) = prefix
HasHeader(req, name) == req.headers.type = "dict" /\ HasKey(req.headers, name)
Header(req, name) == GetItem(req.headers, name)
\* An exception raised by the function's own statements, before the transport call
BuildErrors == {Exc("TypeError"), Exc("UnicodeEncodeError")}

\* C1: every request an authenticated operation emits carries Authorization
\* equal to "Bearer " + access_token, and none of register, login,
\* reset_password, update_password emits a Bearer header: login's is a Basic
\* one and the other three emit no Authorization header.
C1_BearerIffAuthenticated ==
    \A i \in 1..Len(last.emitted) :
        LET req == last.emitted[i]
        IN  /\ last.op \in Authenticated =>
                /\ HasHeader(req, "Authorization")
                /\ Header(req, "Authorization") = Str("Bearer " \o last.args.access_token.val)
            /\ last.op = "login" =>
                /\ HasHeader(req, "Authorization")
                /\ StartsWith(Header(req, "Authorization").val, "Basic ")
                /\ ~StartsWith(Header(req, "Authorization").val, "Bearer ")
            /\ last.op \in Unauthenticated \ {"login"} => ~HasHeader(req, "Authorization")

C1_Witness ==
    /\ last.op = "change_password"
    /\ last.args.access_token = Str("T")
    /\ Len(last.emitted) = 1
    /\ Header(last.emitted[1], "Authorization") = Str("Bearer T")

\* C2 as stated: an authenticated operation called with access_token None
\* emits a request that has no Authorization header.
C2_Original ==
    (last.op \in Authenticated /\ last.args.access_token = None) =>
        /\ Len(last.emitted) = 1
        /\ ~HasHeader(last.emitted[1], "Authorization")

\* C2, amended: an authenticated operation called with access_token None
\* raises TypeError before the transport is called: no request is emitted,
\* so none with a "Bearer " header of an empty or placeholder token.
C2_NoTokenRaisesBeforeSend ==
    (last.op \in Authenticated /\ last.args.access_token = None) =>
        /\ last.emitted = NoRequest
        /\ last.result = Exc("TypeError")

C2_Witness ==
    /\ last.op = "get_user"
    /\ last.args.user_id = Str("u1")
    /\ last.args.access_token = None
    /\ last.emitted = NoRequest
    /\ last.result = Exc("TypeError")

\* C5 as stated: new_text_input with interaction_id None and a valid user_id
\* (and token) emits exactly one request whose query string holds user_id and
\* no interaction_id key.
C5_Original ==
    (/\ last.op = "new_text_input"
     /\ last.args.interaction_id = None
     /\ IsStr(last.args.user_id)
     /\ IsStr(last.args.access_token)) =>
        /\ Len(last.emitted) = 1
        /\ last.emitted[1].url =
               "https://aei.ai/api/v1/inputs/text?user_id=" \o last.args.user_id.val

\* C5, amended: new_text_input with interaction_id None and a valid user_id
\* raises TypeError while the query string is built, before the transport is
\* called: no request is emitted.
C5_MissingInteractionIdRaises ==
    (/\ last.op = "new_text_input"
     /\ last.args.interaction_id = None
     /\ IsStr(last.args.user_id)) =>
        /\ last.emitted = NoRequest
        /\ last.result = Exc("TypeError")

C5_Witness ==
    /\ last.op = "new_text_input"
    /\ last.args.interaction_id = None
    /\ last.args.user_id = Str("u1")
    /\ last.args.access_token = Str("T")
    /\ last.emitted = NoRequest
    /\ last.result = Exc("TypeError")

\* C7 as stated: every invocation issues exactly one request, so after n
\* calls exactly n requests have been sent.
C7_Original == sent = calls

\* C7, amended: an invocation hands exactly one request to the transport when
\* its request was built, and none when building it raised (TypeError,
\* UnicodeEncodeError); never two: a non-200 response or a transport failure
\* is followed by no retry.  The count of requests sent grows by that number.
C7_AtMostOneRequestPerCall ==
    [][calls' = calls + 1 =>
          /\ sent' = sent + Len(last'.emitted)
          /\ Len(last'.emitted) = IF last'.result \in BuildErrors THEN 0 ELSE 1]_vars

C7_Witness ==
    /\ calls = 2
    /\ sent = 2
    /\ last.op = "get_user"
    /\ last.tr = Exc("ConnectionError")
    /\ last.result = Exc("ConnectionError")
    /\ Len(last.emitted) = 1

\* C8: the client keeps no state across calls.  No call changes AEI_AI_URL,
\* API_VERSION or API_URL; a call repeated with the same arguments emits the
\* same request again; the request of get_user(id, token) is the closed form
\* below of id and token alone, whatever was called before; and get_user,
\* get_user_list and reset_password can be called after any calls, a login or
\* none (as long as the model takes calls at all: calls < MaxCalls).
C8_Stateless ==
    [][calls' = calls + 1 =>
          /\ AEI_AI_URL' = AEI_AI_URL
          /\ API_VERSION' = API_VERSION
          /\ API_URL' = API_URL
          /\ (last'.op = last.op /\ last'.args = last.args)
                 => last'.emitted = last.emitted
          /\ (last'.op = "get_user" /\ IsStr(last'.args.user_id)
                  /\ IsStr(last'.args.access_token)) =>
                 last'.emitted =
                     <<[method |-> "GET",
                        url |-> "https://aei.ai/api/v1/users/" \o last'.args.user_id.val,
                        headers |-> Dict(<<<<"Authorization",
                                             Str("Bearer " \o last'.args.access_token.val)>>>>),
                        data |-> None]>>
          /\ calls' < MaxCalls =>
                 /\ (ENABLED Call_get_user)'
                 /\ (ENABLED Call_get_user_list)'
                 /\ (ENABLED Call_reset_password)']_vars

C8_Witness ==
    /\ calls = 2
    /\ sent = 2
    /\ last.op = "get_user"
    /\ last.args = [user_id |-> Str("u1"), access_token |-> Str("T")]
    /\ last.emitted[1].url = "https://aei.ai/api/v1/users/u1"

\* C9: every request's URL starts with https://aei.ai; register, login,
\* reset_password and update_password use an unversioned path directly under
\* the host, every other operation a path under https://aei.ai/api/v1.
C9_UrlPrefix ==
    \A i \in 1..Len(last.emitted) :
        LET url == last.emitted[i].url
        IN  /\ StartsWith(url, "https://aei.ai/")
            /\ last.op = "register" => url = "https://aei.ai/register"
            /\ last.op = "login" => url = "https://aei.ai/oauth/token"
            /\ last.op = "reset_password" => url = "https://aei.ai/reset-password"
            /\ last.op = "update_password" => url = "https://aei.ai/update-password"
            /\ last.op \in Unauthenticated => ~StartsWith(url, "https://aei.ai/api/")
            /\ last.op \in Authenticated => StartsWith(url, "https://aei.ai/api/v1/")

C9_Witness ==
    /\ last.op = "reset_password"
    /\ Len(last.emitted) = 1
    /\ last.emitted[1].url = "https://aei.ai/reset-password"

\* C10 as stated: an operation returns the transport's response unchanged and
\* only a transport-level exception can escape an operation.
C10_Original ==
    /\ last.tr \in Responses => last.result = last.tr
    /\ IsExc(last.result) => last.result \in TransportErrors

\* C10, amended: once the transport is called, the operation returns the
\* response it answers, whatever its status, unchanged, and lets a transport
\* exception through untranslated; the only other exceptions that escape are
\* those raised while the request is built, before the transport is called.
C10_ResponseUninterpreted ==
    /\ Len(last.emitted) > 0 => last.result = last.tr
    /\ (IsExc(last.result) /\ last.result \notin TransportErrors) =>
           /\ last.emitted = NoRequest
           /\ last.result \in BuildErrors

C10_Witness ==
    /\ last.op = "create_new_user"
    /\ Len(last.emitted) = 1
    /\ last.tr = Response(200, 404)
    /\ last.result = Response(200, 404)

\* Reading a Basic header back: base64 decoding (RFC 4648) of the text after
\* "Basic ", and the split at the first ':'.
B64Index(c) == IndexOf(c, B64ALPHABET) - 1
RECURSIVE B64DecodeBytes(_)
B64DecodeBytes(t) ==
    IF Len(t) = 0 THEN <<>>
    ELSE LET i1 == B64Index(CharAt(t, 1))
             i2 == B64Index(CharAt(t, 2))
             b1 == i1 * 4 + i2 \div 16
         IN  IF CharAt(t, 3) = "=" THEN <<b1>>
             ELSE LET i3 == B64Index(CharAt(t, 3))
                      b2 == (i2 % 16) * 16 + i3 \div 4
                  IN  IF CharAt(t, 4) = "=" THEN <<b1, b2>>
                      ELSE <<b1, b2, (i3 % 4) * 64 + B64Index(CharAt(t, 4))>>
                           \o B64DecodeBytes(SubSeq(t, 5, Len(t)))
BasicCredentials(header) == decode_chars(B64DecodeBytes(SubSeq(header, 7, Len(header))))
FirstColon(t) == CHOOSE i \in 1..Len(t) :
                     CharAt(t, i) = ":" /\ \A j \in 1..(i - 1) : CharAt(t, j) # ":"
SplitFirstColon(t) == <<SubSeq(t, 1, FirstColon(t) - 1), SubSeq(t, FirstColon(t) + 1, Len(t))>>
IsAscii(t) == \A i \in 1..Len(t) : ord(CharAt(t, i)) <= 127

\* What the round trip of C3 asks of a login request for (u, p): a header
\* "Basic " + base64 text which, decoded, is u + ":" + p and, when u holds no
\* ':', splits at the first ':' into exactly (u, p).
BasicHeaderFor(req, u, p) ==
    /\ HasHeader(req, "Authorization")
    /\ StartsWith(Header(req, "Authorization").val, "Basic ")
    /\ BasicCredentials(Header(req, "Authorization").val) = u \o ":" \o p
    /\ ~Contains(u, ":") =>
           SplitFirstColon(BasicCredentials(Header(req, "Authorization").val)) = <<u, p>>
    /\ (u = "alice" /\ p = "s3cret") =>
           Header(req, "Authorization") = Str("Basic YWxpY2U6czNjcmV0")

\* C3 as stated: for every username u and password p, login emits a request
\* whose Authorization header is "Basic " + base64(u:p), from which (u, p) is
\* recovered when u holds no ':'.
C3_Original ==
    pc = "done" =>
        /\ Len(last.emitted) = 1
        /\ BasicHeaderFor(last.emitted[1], input[1].val, input[2].val)

\* C3, amended: that holds for every ASCII username and password; when either
\* holds a non-ASCII character, login raises UnicodeEncodeError and emits no
\* request.
C3_BasicHeaderRoundTrip ==
    pc = "done" =>
        IF IsAscii(input[1].val) /\ IsAscii(input[2].val)
        THEN /\ Len(last.emitted) = 1
             /\ BasicHeaderFor(last.emitted[1], input[1].val, input[2].val)
        ELSE /\ last.emitted = NoRequest
             /\ last.result = Exc("UnicodeEncodeError")

C3_Witness ==
    /\ pc = "done"
    /\ input = <<Str("a"), Str(":a")>>
    /\ Len(last.emitted) = 1
    /\ Header(last.emitted[1], "Authorization") = Str("Basic YTo6YQ==")
    /\ SplitFirstColon(BasicCredentials("Basic YTo6YQ==")) = <<"a", ":a">>

\* C4: params_2_string gives "" for None and for an empty dict, and otherwise
\* "?" followed by the items "key=value" in insertion order, joined by single
\* "&", with no trailing "&" and the values copied verbatim.
RECURSIVE JoinedItems(_)
JoinedItems(items) ==
    IF Len(items) = 1 THEN items[1][1] \o "=" \o items[1][2].val
    ELSE items[1][1] \o "=" \o items[1][2].val \o "&" \o JoinedItems(Tail(items))
C4_QueryString ==
    pc = "done" =>
        /\ (input.type = "NoneType" \/ Len(input.val) = 0) => last.result = Str("")
        /\ (input.type = "dict" /\ Len(input.val) > 0) =>
               last.result = Str("?" \o JoinedItems(input.val))
        /\ input = Dict(<<<<"user_id", Str("u1")>>, <<"interaction_id", Str("i2")>>>>) =>
               last.result = Str("?user_id=u1&interaction_id=i2")

C4_Witness ==
    /\ pc = "done"
    /\ input = Dict(<<<<"user_id", Str("u1")>>, <<"interaction_id", Str("i2")>>>>)
    /\ last.result = Str("?user_id=u1&interaction_id=i2")

\* C6: is_success returns true exactly when code is 200; when it returns
\* false it has printed the error and then the help of that status, and when
\* it returns true it has printed nothing.
C6_IsSuccess ==
    [][checks' = checks + 1 =>
          LET status == last'.args.status
              code == GetItem(status, "code").val
              error == GetItem(status, "error")
              help == GetItem(status, "help")
          IN  /\ last'.result = Bool(code = 200)
              /\ code = 200 => stdout' = stdout
              /\ code # 200 =>
                     /\ Len(stdout') = Len(stdout) + 2
                     /\ SubSeq(stdout', 1, Len(stdout)) = stdout
                     /\ IsStr(error) => stdout'[Len(stdout) + 1] = error.val
                     /\ IsStr(help) => stdout'[Len(stdout) + 2] = help.val]_vars

C6_Witness ==
    /\ last.op = "is_success"
    /\ last.args.status = Dict(<<<<"code", PyInt(404)>>, <<"error", Str("not found")>>,
                                 <<"help", Str("check id")>>>>)
    /\ last.result = Bool(FALSE)
    /\ stdout = <<"not found", "check id">>

\* C11 as stated: each get-all operation requests exactly API_URL + its
\* resource segment (/users, /interactions, /sources), with no id and no
\* trailing '/', and each get-one operation that same URL + '/' + id;
\* get_user_list issues GET to https://aei.ai/api/v1/users.
CollectionUrl(op) ==
    CASE op \in {"get_user_list", "get_user"} -> "https://aei.ai/api/v1/users"
      [] op \in {"get_interaction_list", "get_interaction"} -> "https://aei.ai/api/v1/interactions"
      [] op \in {"get_payment_sources", "get_payment_source"} -> "https://aei.ai/api/v1/sources"
C11_Original ==
    \A i \in 1..Len(last.emitted) :
        LET req == last.emitted[i]
        IN  /\ last.op \in {"get_user_list", "get_interaction_list", "get_payment_sources"} =>
                /\ req.method = "GET"
                /\ req.url = CollectionUrl(last.op)
            /\ last.op = "get_user" =>
                req.url = CollectionUrl(last.op) \o "/" \o last.args.user_id.val
            /\ last.op = "get_interaction" =>
                req.url = CollectionUrl(last.op) \o "/" \o last.args.interaction_id.val
            /\ last.op = "get_payment_source" =>
                req.url = CollectionUrl(last.op) \o "/" \o last.args.source_id.val

\* What holds of C11 apart from get_user_list: the other five reads compose
\* their URLs as stated, and get_user_list requests the users URL followed by
\* a trailing '/'.
C11_ExceptUserList ==
    \A i \in 1..Len(last.emitted) :
        LET req == last.emitted[i]
        IN  /\ last.op \in {"get_interaction_list", "get_payment_sources"} =>
                req.method = "GET" /\ req.url = CollectionUrl(last.op)
            /\ last.op = "get_user_list" =>
                req.method = "GET" /\ req.url = CollectionUrl(last.op) \o "/"
            /\ last.op = "get_user" =>
                req.url = CollectionUrl(last.op) \o "/" \o last.args.user_id.val
            /\ last.op = "get_interaction" =>
                req.url = CollectionUrl(last.op) \o "/" \o last.args.interaction_id.val
            /\ last.op = "get_payment_source" =>
                req.url = CollectionUrl(last.op) \o "/" \o last.args.source_id.val

\* ------------------------------------------------------ the driver's order
Ops(trace) == [i \in 1..Len(trace) |-> trace[i].op]
\* the operations that submit an input, and those that read what the service derived
InputOps == {"new_text_input", "new_interaction_list_input", "send_text", "send_image"}
MetricOps ==
    {"get_user", "get_user_list", "get_user_emotion", "get_user_mood",
     "get_user_personality", "get_user_satisfaction", "get_user_social_perception",
     "get_interaction", "get_used_free_queries"}
\* ops holds an element of each of steps, in the order of steps
RECURSIVE InOrder(_, _)
InOrder(ops, steps) ==
    IF Len(steps) = 0 THEN TRUE
    ELSE IF Len(ops) = 0 THEN FALSE
    ELSE IF ops[1] \in steps[1] THEN InOrder(Tail(ops), Tail(steps))
    ELSE InOrder(Tail(ops), steps)
\* every request the driver made was answered with status 200
AllServed(trace) ==
    \A i \in 1..Len(trace) :
        trace[i].tr.type = "Response" /\ trace[i].tr.val.status_code = 200

\* register is called exactly when the account is not registered, and first
RegisterOnlyWhenUnregistered ==
    \A i \in 1..Len(main.trace) :
        main.trace[i].op = "register" => i = 1 /\ ~main.REGISTERED
\* a program that has stopped with every request served has gone through
\* login, create users, create interaction, add users, inputs, metrics, in order
OrderCompleted ==
    (pc \in MainStopped /\ AllServed(main.trace)) =>
        /\ ~main.REGISTERED => "register" \in {main.trace[i].op : i \in 1..Len(main.trace)}
        /\ InOrder(Ops(main.trace),
                   <<{"login"}, {"create_new_user"}, {"create_new_interaction"},
                     {"add_users_to_interaction"}, InputOps, MetricOps>>)
\* every authenticated call comes after a login and carries the access token
\* of that login's response
TokenFromLogin ==
    \A i \in 1..Len(main.trace) :
        main.trace[i].op \in Authenticated =>
            \E j \in 1..(i - 1) :
                /\ main.trace[j].op = "login"
                /\ main.trace[i].args.access_token
                       = Subscript(json(main.trace[j].result), "access_token")
\* the interaction is created with the ids the two create_new_user responses
\* carried, in that order
IdsFromCreates ==
    \A i \in 1..Len(main.trace) :
        main.trace[i].op = "create_new_interaction" =>
            \E j, k \in 1..(i - 1) :
                /\ j < k
                /\ main.trace[j].op = "create_new_user"
                /\ main.trace[k].op = "create_new_user"
                /\ main.trace[i].args.user_ids
                       = List(<<Subscript(Subscript(json(main.trace[j].result), "user"), "userId"),
                                Subscript(Subscript(json(main.trace[k].result), "user"), "userId")>>)

\* C12 as stated: the driver calls the library in the order register (only
\* when the account is not yet registered), login, create users, create
\* interaction, add users to the interaction, submit inputs, read derived
\* metrics; login precedes every authenticated call, which is passed the
\* access token of the login response and the ids of the create responses.
C12_Original ==
    /\ RegisterOnlyWhenUnregistered
    /\ OrderCompleted
    /\ TokenFromLogin
    /\ IdsFromCreates

\* What holds of C12 as far as the driver runs: register only when not
\* registered and first, login before every authenticated call, the token and
\* the ids threaded from the earlier responses; and the driver never gets past
\* create_new_interaction: it never returns, never calls
\* add_users_to_interaction, submits no input and reads no metric.
C12_AsFarAsItRuns ==
    /\ RegisterOnlyWhenUnregistered
    /\ TokenFromLogin
    /\ IdsFromCreates
    /\ pc \notin {"send_image", "user_list", "free_queries", "returned"}
    /\ \A i \in 1..Len(main.trace) :
           main.trace[i].op \in {"register", "login", "create_new_user", "create_new_interaction"}
    /\ "api.aei_ai" \notin input.modules => Len(main.trace) = 0
\* the driver has created the interaction from two created users and stopped
\* on the NameError of send_text
C12_ReachesSendText ==
    /\ pc = "raised"
    /\ main.raised = Exc("NameError")
    /\ Ops(main.trace) = <<"login", "create_new_user", "create_new_user", "create_new_interaction">>
    /\ main.user1_id # main.user2_id

====
